---------------------------- MODULE Spec2Model ----------------------------
(***************************************************************************)
(* Colour-management core of the editor: AnySpace's three-stage            *)
(* conversion with its per-instance transform and gamut-checker caches,    *)
(* and the Manager registry of colour spaces.                              *)
(***************************************************************************)
EXTENDS Integers, Sequences, FiniteSets, TLC

VARIABLES
    _transforms,     \* AnySpace::_transforms, per space instance: key -> transform or null
    _gamut_checkers, \* AnySpace::_gamut_checkers, per space instance: profile id -> checker or null
    factoryCalls,    \* instrumentation: Transform::create_for_cms invocations, per <<instance, key>>
    checkerCalls,    \* instrumentation: Transform::create_for_cms_checker invocations, per <<instance, id>>
    last,            \* the last AnySpace call: its arguments, result and the stages it ran
    calls,           \* number of AnySpace calls made so far
    crashed,         \* the process died (null checker dereferenced)
    _spaces,         \* Manager::_spaces, in registration order
    owned,           \* space objects ever handed to Manager::addSpace
    mgrLast,         \* the last Manager call: its argument and result
    mgrOps,          \* number of Manager calls made so far
    query,           \* the last Manager lookup since the registry changed, and its result
    values,          \* a std::vector<double> of channel values held by a caller
    access,          \* the last call made on values: its result and the indices it touched
    threads,         \* per thread: where it stands inside convert / outOfGamut on the shared space
    raced,           \* a thread has accessed a cache map while another was inserting into it
    rot,             \* the Rotateable widget's fields
    rotLast,         \* the last Rotateable event: its arguments, result and the do_* hooks it invoked
    statusbar,       \* StatusBar: the blocker's count, the handlers in progress, the spin-button values
    sbLast,          \* the last StatusBar handler entered: whether it returned at once, and what it did
    sbCalls,         \* number of StatusBar handler entries so far
    sinceClick       \* history: none, pressed (a click since the last release or scroll) or
                     \* moved (pressed, and a motion more than 20 px from the press point since)

convVars == <<_transforms, _gamut_checkers, factoryCalls, checkerCalls, last, calls, crashed>>
mgrVars == <<_spaces, owned, mgrLast, mgrOps, query>>
dataVars == <<values, access>>
threadVars == <<threads, raced>>
rotVars == <<rot, rotLast, sinceClick>>
sbVars == <<statusbar, sbLast, sbCalls>>
vars == <<_transforms, _gamut_checkers, factoryCalls, checkerCalls, last, calls, crashed,
          _spaces, owned, mgrLast, mgrOps, query, values, access, threads, raced,
          rot, rotLast, sinceClick, statusbar, sbLast, sbCalls>>

\* ------------------------------------------------------------------ bounds

\* AnySpace calls (convert, outOfGamut) in one run
MaxCalls == 2
\* Manager calls (addSpace, removeSpace) in one run
MaxMgrOps == 3
\* Longest channel vector a caller holds
MaxLen == 6
\* Lab functions applied in place to one vector
MaxLabOps == 2
\* Largest numerator or denominator the scalings are computed from
MaxTerm == 1000000
\* StatusBar handler entries in one run
MaxSbCalls == 4

\* A null shared_ptr (no transform, no checker, no space)
nullptr == "nullptr"

\* ------------------------------------------------- profiles and intents

\* RenderingIntent values a space can be configured with
Intents == {"UNKNOWN", "PERCEPTUAL", "RELATIVE_COLORIMETRIC", "SATURATION"}

\* intentIds: one identifier per rendering intent
intentIds ==
    [i \in Intents |->
        CASE i = "UNKNOWN" -> ""
          [] i = "PERCEPTUAL" -> "p"
          [] i = "RELATIVE_COLORIMETRIC" -> "r"
          [] i = "SATURATION" -> "s"]

\* CMS::Profile objects: the shared sRGB profile and two ICC profiles
Profiles == {"srgb", "iccA", "iccB"}

\* Profile::getChecksum: a fixed-length digest of the profile data
getChecksum(p) ==
    CASE p = "srgb" -> "c0"
      [] p = "iccA" -> "a1"
      [] p = "iccB" -> "b2"

\* Profile::getId
getId(p) == p

\* ------------------------------------------------------ space instances

\* The space instances colours are converted between: plain RGB on the
\* sRGB profile and three CMS-backed spaces, two of them on one profile.
Instances == {"RGB", "CMS_A", "CMS_A2", "CMS_B"}

\* AnySpace::getProfile
getProfile(s) ==
    CASE s = "RGB" -> "srgb"
      [] s \in {"CMS_A", "CMS_A2"} -> "iccA"
      [] s = "CMS_B" -> "iccB"

\* AnySpace::getIntent
getIntent(s) ==
    CASE s \in {"RGB", "CMS_A2"} -> "UNKNOWN"
      [] s = "CMS_A" -> "RELATIVE_COLORIMETRIC"
      [] s = "CMS_B" -> "SATURATION"

\* Whether the instance's class overrides spaceToProfile/profileToSpace
\* (plain RGB keeps AnySpace's empty bodies).
overridesHooks(s) == s # "RGB"

\* Channel vectors handed to convert / outOfGamut (three channels, or four with alpha)
Inputs == {<<1, 0, 0>>, <<0, 1, 0, 1>>}

\* A value vector is tracked as the input it started from and the
\* conversions applied to it since, in order.
Value(v) == [v |-> v, ops |-> <<>>]

\* A vector a caller holds: the contents it started with, the Lab functions
\* applied to it in place, and its contents now
Held(v) == [v |-> v, ops |-> <<>>, now |-> v]

apply(io, op) == [io EXCEPT !.ops = Append(@, op)]

\* Invocation counts: a call not yet made has no entry
Count(counts, c) == IF c \in DOMAIN counts THEN counts[c] ELSE 0

Counted(counts, c) ==
    IF c \in DOMAIN counts THEN [counts EXCEPT ![c] = @ + 1] ELSE counts @@ (c :> 1)

\* --------------------------------------------------- AnySpace: stages

\* Stage 1, virtual: the space's own encoding into its profile's encoding.
\* AnySpace's body is empty; an overriding class rewrites the vector.
spaceToProfile(s, io) ==
    IF overridesHooks(s) THEN apply(io, <<"spaceToProfile", s>>) ELSE io

\* Stage 3, virtual: the profile's encoding into the space's own encoding.
profileToSpace(s, io) ==
    IF overridesHooks(s) THEN apply(io, <<"profileToSpace", s>>) ELSE io

\* Variant: the destination's intent is preferred to the source's
chooseIntent_theirsFirst(from, to) ==
    LET theirs == getIntent(to)
        ours == IF theirs = "UNKNOWN" THEN getIntent(from) ELSE theirs
    IN  IF ours = "UNKNOWN" THEN "PERCEPTUAL" ELSE ours

\* The rendering intent profileToProfile settles on: ours, then theirs,
\* then the default.
chooseIntent(from, to) ==
    LET ours == getIntent(from)
        theirs == IF ours = "UNKNOWN" THEN getIntent(to) ELSE ours
    IN  IF theirs = "UNKNOWN" THEN "PERCEPTUAL" ELSE theirs

\* Variant: the key is the checksum alone
transformKey_noIntent(from, to) ==
    getChecksum(getProfile(to))

\* to_profile_id of profileToProfile: checksum and intent id concatenated
transformKey(from, to) ==
    getChecksum(getProfile(to)) \o intentIds[chooseIntent(from, to)]

\* Variant: no two profiles compare equal
sameProfile_never(from, to) ==
    FALSE

\* Variant: the space pointers are compared, not the profiles
sameProfile_samePointer(from, to) ==
    from = to

\* *to_profile == *from_profile
sameProfile(from, to) ==
    getProfile(to) = getProfile(from)

\* Variant: the cache is never consulted
cacheMiss_always(cache, key) ==
    TRUE

\* Variant: a cached null counts as a miss
cacheMiss_orNull(cache, key) ==
    key \notin DOMAIN cache \/ cache[key] = nullptr

\* !_transforms.contains(to_profile_id)
cacheMiss(cache, key) ==
    key \notin DOMAIN cache

\* std::map::emplace: inserts unless the key is present
emplace(cache, key, value) ==
    IF key \in DOMAIN cache THEN cache ELSE cache @@ (key :> value)

\* Transform::create_for_cms: a transform for the profile pair and intent,
\* or null when the library cannot build one (made = FALSE).
create_for_cms(from_profile, to_profile, intent, made) ==
    IF made THEN from_profile \o ">" \o to_profile \o "/" \o intent ELSE nullptr

\* Transform::do_transform: rewrites the vector in place and reports
\* whether it did.
do_transform(tr, io, ok) ==
    IF ok THEN [ret |-> TRUE, io |-> apply(io, <<"do_transform", tr>>)]
    ELSE [ret |-> FALSE, io |-> io]

\* Variant: a null transform is reported as success
useTransform_nullSucceeds(tr, io, ok) ==
    IF tr # nullptr
    THEN [ret |-> do_transform(tr, io, ok).ret, io |-> do_transform(tr, io, ok).io,
          used |-> IF ok THEN "applied" ELSE "refused"]
    ELSE [ret |-> TRUE, io |-> io, used |-> "null"]

\* The end of profileToProfile: apply the cached transform, or fail on null.
\* used tells how it went: applied, refused (do_transform false) or null.
useTransform(tr, io, ok) ==
    IF tr # nullptr
    THEN [ret |-> do_transform(tr, io, ok).ret, io |-> do_transform(tr, io, ok).io,
          used |-> IF do_transform(tr, io, ok).ret THEN "applied" ELSE "refused"]
    ELSE [ret |-> FALSE, io |-> io, used |-> "null"]

\* Stage 2. cache is this->_transforms; returns the boolean result, the
\* vector, the cache afterwards, the key looked up ("" when the profiles
\* are equal), whether the factory was invoked, and how the transform was
\* used (none when the profiles are equal).
profileToProfile(cache, io, from, to, made, ok) ==
    LET from_profile == getProfile(from)
        to_profile == getProfile(to)
        intent == chooseIntent(from, to)
        to_profile_id == transformKey(from, to)
        miss == cacheMiss(cache, to_profile_id)
        cache2 == IF miss
                  THEN emplace(cache, to_profile_id,
                               create_for_cms(from_profile, to_profile, intent, made))
                  ELSE cache
        r == useTransform(cache2[to_profile_id], io, ok)
    IN  IF sameProfile(from, to)
        THEN [ret |-> TRUE, io |-> io, cache |-> cache, key |-> "", built |-> FALSE,
              used |-> "none"]
        ELSE [ret |-> r.ret, io |-> r.io, cache |-> cache2, key |-> to_profile_id,
              built |-> miss, used |-> r.used]

\* Variant: stage 3 is always the destination's
convert_decodesWithDestination(cache, io, from, to, made, ok) ==
    LET p == profileToProfile(cache, spaceToProfile(from, io), from, to, made, ok)
        two == <<<<"spaceToProfile", from>>, <<"profileToProfile", from, to>>>>
    IN  [ret |-> p.ret, io |-> profileToSpace(to, p.io), cache |-> p.cache,
         key |-> p.key, built |-> p.built, used |-> p.used,
         stages |-> Append(two, <<"profileToSpace", to>>)]

\* Variant: stage 3 is always the source's
convert_decodesWithSource(cache, io, from, to, made, ok) ==
    LET p == profileToProfile(cache, spaceToProfile(from, io), from, to, made, ok)
        two == <<<<"spaceToProfile", from>>, <<"profileToProfile", from, to>>>>
    IN  [ret |-> p.ret, io |-> profileToSpace(from, p.io), cache |-> p.cache,
         key |-> p.key, built |-> p.built, used |-> p.used,
         stages |-> Append(two, <<"profileToSpace", from>>)]

\* AnySpace::convert on instance `from`. stages lists the calls it made.
convert(cache, io, from, to, made, ok) ==
    LET p == profileToProfile(cache, spaceToProfile(from, io), from, to, made, ok)
        two == <<<<"spaceToProfile", from>>, <<"profileToProfile", from, to>>>>
    IN  IF p.ret
        THEN [ret |-> TRUE, io |-> profileToSpace(to, p.io), cache |-> p.cache,
              key |-> p.key, built |-> p.built, used |-> p.used,
              stages |-> Append(two, <<"profileToSpace", to>>)]
        ELSE [ret |-> FALSE, io |-> profileToSpace(from, p.io), cache |-> p.cache,
              key |-> p.key, built |-> p.built, used |-> p.used,
              stages |-> Append(two, <<"profileToSpace", from>>)]

\* Transform::create_for_cms_checker
create_for_cms_checker(from_profile, to_profile, made) ==
    IF made THEN from_profile \o ">" \o to_profile ELSE nullptr

\* Variant: the checker cache is keyed like the transform cache
checkerKey_withIntent(from, to) ==
    getId(getProfile(to)) \o intentIds[chooseIntent(from, to)]

\* to_profile_id of outOfGamut: the destination profile's id
checkerKey(from, to) ==
    getId(getProfile(to))

\* AnySpace::outOfGamut on instance `from`. cache is this->_gamut_checkers.
\* The cached checker is dereferenced unchecked: on a null entry the call
\* either kills the process (die) or yields an arbitrary boolean (res);
\* on a checker, res is check_gamut's answer.
outOfGamut(cache, input, from, to, made, res, die) ==
    LET from_profile == getProfile(from)
        to_profile == getProfile(to)
        to_profile_id == checkerKey(from, to)
        hit == to_profile_id \in DOMAIN cache
        cache2 == IF hit THEN cache
                  ELSE cache @@ (to_profile_id :>
                          create_for_cms_checker(from_profile, to_profile, made))
        checker == cache2[to_profile_id]
    IN  IF sameProfile(from, to)
        THEN [ret |-> FALSE, cache |-> cache, built |-> FALSE, checker |-> "none",
              crashed |-> FALSE]
        ELSE IF checker # nullptr
        THEN [ret |-> res, cache |-> cache2, built |-> ~hit, checker |-> "used",
              crashed |-> FALSE]
        ELSE [ret |-> res /\ ~die, cache |-> cache2, built |-> ~hit,
              checker |-> "null", crashed |-> die]

\* ------------------------------------------------- channel vectors

\* A double is a fraction <<numerator, denominator>> in lowest terms with a
\* positive denominator; the arithmetic on them is exact
Abs(n) == IF n < 0 THEN -n ELSE n

RECURSIVE gcd(_, _)
gcd(a, b) == IF b = 0 THEN a ELSE gcd(b, a % b)

Frac(n, d) ==
    LET g == gcd(Abs(n), Abs(d))
    IN  IF d < 0 THEN <<(-n) \div g, (-d) \div g>> ELSE <<n \div g, d \div g>>

Zero == Frac(0, 1)

One == Frac(1, 1)

Half == Frac(1, 2)

\* a + b
Plus(a, b) ==
    LET g == gcd(a[2], b[2])
    IN  Frac(a[1] * (b[2] \div g) + b[1] * (a[2] \div g), (a[2] \div g) * b[2])

\* a - b
Minus(a, b) == Plus(a, <<-b[1], b[2]>>)

\* a * b
Times(a, b) ==
    LET g1 == gcd(Abs(a[1]), b[2])
        g2 == gcd(Abs(b[1]), a[2])
    IN  Frac((a[1] \div g1) * (b[1] \div g2), (a[2] \div g2) * (b[2] \div g1))

\* a / b, b not zero
Over(a, b) == Times(a, IF b[1] < 0 THEN <<-b[2], -b[1]>> ELSE <<b[2], b[1]>>)

\* a < b: by the whole parts, and when those agree by the reciprocals of
\* the fractional parts
RECURSIVE Less(_, _)
Less(a, b) ==
    LET wa == a[1] \div a[2]
        wb == b[1] \div b[2]
        ra == a[1] % a[2]
        rb == b[1] % b[2]
    IN  IF wa # wb THEN wa < wb
        ELSE IF rb = 0 THEN FALSE
        ELSE IF ra = 0 THEN TRUE
        ELSE Less(<<b[2], rb>>, <<a[2], ra>>)

\* a > b
Greater(a, b) == Less(b, a)

\* Channel values: the ends of the normalised range, its middle, and a
\* dark value on the linear branch of the CIE formula
Channels == {Zero, Frac(1, 25), Half, One}

\* The vectors of up to MaxLen channel values: every choice for the three
\* colour channels and the opacity, zeros after them
Vectors ==
    UNION {{v \in [1 .. n -> Channels] : \A i \in 1 .. n : i > 4 => v[i] = Zero}
               : n \in 0 .. MaxLen}

\* Space classes whose data is validated
DataSpaces == {"RGB", "Lab", "DeviceCMYK"}

\* AnySpace::getComponentCount, alpha not counted
getComponentCount(space) ==
    CASE space = "DeviceCMYK" -> 4
      [] OTHER -> 3

\* Variant: any vector long enough is valid
isValidData_atLeast(space, v) ==
    LET n_values == Len(v)
        n_space == getComponentCount(space)
    IN  n_values >= n_space

\* AnySpace::isValidData: the component count, or one more for alpha
isValidData(space, v) ==
    LET n_values == Len(v)
        n_space == getComponentCount(space)
    IN  n_values = n_space \/ n_values = n_space + 1

\* The static Lab functions and Lab::toString
LabOps == {"scaleUp", "scaleDown", "toXYZ", "fromXYZ", "toString"}

\* The zero-based indices of the vector a Lab function reads or writes with
\* operator[]: 0, 1 and 2 whatever the size, and toString's values[3] when
\* opacity is asked for and the size is 4
indices(op, v, opacity) ==
    IF op = "toString" /\ opacity /\ Len(v) = 4 THEN {0, 1, 2, 3} ELSE {0, 1, 2}

\* operator[] with an index at or past size() is undefined behaviour
pastEnd(idx, v) == \E i \in idx : i >= Len(v)

\* ------------------------------------------------------------------- Lab

LUMA_SCALE == 100

MIN_SCALE == -128

MAX_SCALE == 128

MIN_CSS_SCALE == -125

MAX_CSS_SCALE == 125

\* The double an integer constant converts to
Num(n) == Frac(n, 1)

\* The macro that takes v from 0..1 to a..b
SCALE_UP(v, a, b) == Plus(Times(v, Num(b - a)), Num(a))

\* The macro that takes v from a..b to 0..1
SCALE_DOWN(v, a, b) == Over(Minus(v, Num(a)), Num(b - a))

\* The D65 white point
illuminant_d65 == <<Frac(9504, 10000), One, Frac(10888, 10000)>>

\* The threshold between the linear and the cubic branch, 0.008856
threshold == Frac(8856, 1000000)

\* std::pow with the exponents the Lab functions use: the cube, and
\* 0.33333, which is taken only of 1.0
pow(x, e) == IF e = "3" THEN Times(x, Times(x, x)) ELSE One

\* Lab::scaleUp on a vector of three or more values
scaleUp(in_out) ==
    [in_out EXCEPT ![1] = SCALE_UP(in_out[1], 0, LUMA_SCALE),
                   ![2] = SCALE_UP(in_out[2], MIN_SCALE, MAX_SCALE),
                   ![3] = SCALE_UP(in_out[3], MIN_SCALE, MAX_SCALE)]

\* Lab::scaleDown on a vector of three or more values
scaleDown(in_out) ==
    [in_out EXCEPT ![1] = SCALE_DOWN(in_out[1], 0, LUMA_SCALE),
                   ![2] = SCALE_DOWN(in_out[2], MIN_SCALE, MAX_SCALE),
                   ![3] = SCALE_DOWN(in_out[3], MIN_SCALE, MAX_SCALE)]

\* Lab::toXYZ on a vector of three or more values
toXYZ(in_out) ==
    LET s == scaleUp(in_out)
        y == Over(Plus(s[1], Num(16)), Num(116))
        t == <<Plus(Over(s[2], Num(500)), y), y, Minus(y, Over(s[3], Num(200)))>>
        f(i) ==
            LET x3 == pow(t[i], "3")
            IN  Times(IF Greater(x3, threshold)
                          THEN x3
                          ELSE Over(Minus(t[i], Over(Num(16), Num(116))), Frac(7787, 1000)),
                      illuminant_d65[i])
    IN  [in_out EXCEPT ![1] = f(1), ![2] = f(2), ![3] = f(3)]

\* Lab::fromXYZ on a vector of three or more values
fromXYZ(in_out) ==
    LET n == [i \in 1 .. 3 |-> Over(in_out[i], illuminant_d65[i])]
        l == IF Greater(n[2], threshold)
                 THEN Minus(Times(Num(116), pow(n[2], "0.33333")), Num(16))
                 ELSE Times(Frac(9033, 10), n[2])
        f == [i \in 1 .. 3 |->
                 IF Greater(n[i], threshold)
                     THEN pow(n[i], "0.33333")
                     ELSE Plus(Times(Frac(7787, 1000), n[i]), Over(Num(16), Num(116)))]
    IN  scaleDown([in_out EXCEPT ![3] = Times(Num(200), Minus(f[2], f[3])),
                                 ![2] = Times(Num(500), Minus(f[1], f[2])),
                                 ![1] = l])

\* CSS text is a sequence of tokens: numbers, the slash before an opacity,
\* and words that are no number
number(x) == [kind |-> "number", value |-> x]

slash == [kind |-> "slash", value |-> Zero]

word == [kind |-> "word", value |-> Zero]

\* CssFuncPrinter(3, "lab") after os << x for each x of channels and, when
\* there is one, of alpha: the channel text between "lab(" and ")"
CssFuncPrinter(channels, alpha) ==
    [i \in 1 .. Len(channels) |-> number(channels[i])]
        \o (IF alpha = <<>> THEN <<>> ELSE <<slash, number(alpha[1])>>)

\* Variant: the chroma printed on the internal scale
toString_internalScale(values_, opacity) ==
    CssFuncPrinter(<<Times(values_[1], Num(LUMA_SCALE)),
                     SCALE_UP(values_[2], MIN_SCALE, MAX_SCALE),
                     SCALE_UP(values_[3], MIN_SCALE, MAX_SCALE)>>,
                   IF opacity /\ Len(values_) = 4 THEN <<values_[4]>> ELSE <<>>)

\* Lab::toString on a vector of three or more values
toString(values_, opacity) ==
    CssFuncPrinter(<<Times(values_[1], Num(LUMA_SCALE)),
                     SCALE_UP(values_[2], MIN_CSS_SCALE, MAX_CSS_SCALE),
                     SCALE_UP(values_[3], MIN_CSS_SCALE, MAX_CSS_SCALE)>>,
                   IF opacity /\ Len(values_) = 4 THEN <<values_[4]>> ELSE <<>>)

\* A stream at its start: the text left to read, the output vector, the
\* end flag, and whether the last read gave a value
stream(ss, output) == [ss |-> ss, output |-> output, end |-> FALSE, ok |-> TRUE]

\* append_css_value(ss, output, end, sep, scale): unless the end was
\* reached, reads one number, appends it divided by scale, skips a
\* separator sep after it, and sets end when no text is left; appends
\* nothing and answers false when there is no number to read
append_css_value(st, sep, scale) ==
    IF ~st.end /\ st.ss # <<>> /\ Head(st.ss).kind = "number"
        THEN LET rest == Tail(st.ss)
                 left == IF rest # <<>> /\ Head(rest) = slash /\ sep = "/"
                             THEN Tail(rest) ELSE rest
             IN  [ss |-> left, output |-> Append(st.output, Over(Head(st.ss).value, Num(scale))),
                  end |-> left = <<>>, ok |-> TRUE]
        ELSE [st EXCEPT !.ok = FALSE]

\* The four reads of Lab::Parser::parse, each made only if the one before
\* it gave a value; the optional opacity may be missing
reads(ss, output) ==
    LET s1 == append_css_value(stream(ss, output), ",", LUMA_SCALE)
        s2 == IF s1.ok THEN append_css_value(s1, ",", MAX_CSS_SCALE) ELSE s1
        s3 == IF s2.ok THEN append_css_value(s2, "/", MAX_CSS_SCALE) ELSE s2
    IN  IF s3.ok THEN [append_css_value(s3, ",", 1) EXCEPT !.ok = TRUE] ELSE s3

\* output[1] = (output[1] + 1) / 2; output[2] = (output[2] + 1) / 2
remap(output) ==
    [output EXCEPT ![2] = Over(Plus(@, One), Num(2)), ![3] = Over(Plus(@, One), Num(2))]

\* Variant: the chroma left between -1 and 1
parse_noRemap(ss, output) ==
    LET s == reads(ss, output)
    IN  IF s.ok /\ s.end
            THEN [ret |-> TRUE, output |-> s.output]
            ELSE [ret |-> FALSE, output |-> s.output]

\* Variant: the chroma remapped before the end is looked at
parse_remapFirst(ss, output) ==
    LET s == reads(ss, output)
    IN  IF s.ok
            THEN [ret |-> s.end, output |-> remap(s.output)]
            ELSE [ret |-> FALSE, output |-> s.output]

\* Lab::Parser::parse
parse(ss, output) ==
    LET s == reads(ss, output)
    IN  IF s.ok /\ s.end
            THEN [ret |-> TRUE, output |-> remap(s.output)]
            ELSE [ret |-> FALSE, output |-> s.output]

\* Channel texts handed to the parser, well formed and not
CssTexts ==
    LET l == number(Num(50))
        a == number(Num(0))
        b == number(Num(-125))
        o == number(Half)
    IN  {<<>>, <<word>>, <<l>>, <<l, a>>, <<l, word, b>>, <<l, slash, a, b>>,
         <<l, a, b>>, <<l, a, b, word>>, <<l, a, b, slash>>, <<l, a, b, o>>,
         <<l, a, b, slash, o>>, <<l, a, b, slash, word>>, <<l, a, b, slash, o, a>>}

\* Output vectors handed to the parser: empty, or holding a value already
Outputs == {<<>>, <<One>>}

\* The in-place Lab functions
inPlace(op, in_out) ==
    CASE op = "scaleUp" -> scaleUp(in_out)
      [] op = "scaleDown" -> scaleDown(in_out)
      [] op = "toXYZ" -> toXYZ(in_out)
      [] op = "fromXYZ" -> fromXYZ(in_out)

\* The vectors of three or more values whose result the exact arithmetic
\* gives: fractions of terms up to MaxTerm for the two scalings; a neutral
\* colour of a sampled
\* lightness for toXYZ; for fromXYZ, channels that are the white point's
\* or on the linear branch
computable(op, v) ==
    CASE op = "toXYZ" -> v[1] \in Channels /\ v[2] = Half /\ v[3] = Half
      [] op = "fromXYZ" ->
            \A i \in 1 .. 3 :
                LET c == Over(v[i], illuminant_d65[i])
                IN  c = One \/ (~Less(c, Zero) /\ ~Greater(c, threshold))
      [] OTHER -> \A i \in 1 .. 3 : Abs(v[i][1]) <= MaxTerm /\ v[i][2] <= MaxTerm

\* What a call that indexes past the end leaves in the vector when the
\* process goes on: the scalings have rewritten the elements there are,
\* toXYZ and fromXYZ have mixed in whatever lay behind the vector
overrun(op, v) ==
    IF op \in {"scaleUp", "scaleDown"}
        THEN {SubSeq(inPlace(op, v \o [i \in 1 .. (3 - Len(v)) |-> Zero]), 1, Len(v))}
        ELSE {[i \in 1 .. Len(v) |-> c] : c \in Channels}

\* ---------------------------------------------------------- Rotateable

\* Modifier bits of an event state that get_single_modifier looks at
ModKeys == {"CONTROL", "SHIFT", "ALT"}
\* Event states: the modifier keys held
States == SUBSET ModKeys

\* Pointer positions of click, motion and release events
Xs == {0, 12, 21}
Ys == {0, 16}
\* Vertical scroll deltas
Dys == {-3, -1, 0, 2}

\* Variant: a held Ctrl or Shift does not keep its place
get_single_modifier_byPriority(old, state) ==
    IF "CONTROL" \in state THEN 1
    ELSE IF "SHIFT" \in state THEN 2
    ELSE IF "ALT" \in state THEN 3
    ELSE 0

\* Rotateable::get_single_modifier: 0 none, 1 ctrl, 2 shift, 3 alt
get_single_modifier(old, state) ==
    IF old = 0 \/ old = 3
    THEN IF "CONTROL" \in state THEN 1
         ELSE IF "SHIFT" \in state THEN 2
         ELSE IF "ALT" \in state THEN 3
         ELSE 0
    ELSE IF ~("CONTROL" \in state) /\ ~("SHIFT" \in state)
    THEN IF "ALT" \in state THEN 3 ELSE 0
    ELSE IF old = 1
    THEN IF "SHIFT" \in state /\ ~("CONTROL" \in state) THEN 2
         ELSE IF "ALT" \in state /\ ~("CONTROL" \in state) THEN 3
         ELSE 1
    ELSE IF old = 2
    THEN IF "CONTROL" \in state /\ ~("SHIFT" \in state) THEN 1
         ELSE IF "ALT" \in state /\ ~("SHIFT" \in state) THEN 3
         ELSE 2
    ELSE old

\* Rotateable::Rotateable: the fields after construction. drag_started_x
\* and drag_started_y are not initialised; they are read only after
\* on_click has set them or when the result is not used.
Rotateable ==
    [dragging |-> FALSE, working |-> FALSE, scrolling |-> FALSE, modifier |-> 0,
     drag_started |-> <<0, 0>>, current_axis |-> "axis"]

\* Geom::L2(Point(x, y) - Point(drag_started_x, drag_started_y)) > 20
farFrom(start, x, y) ==
    (x - start[1]) * (x - start[1]) + (y - start[2]) * (y - start[2]) > 20 * 20

\* atan2(y - drag_started_y, x - drag_started_x), kept as the direction
angleFrom(start, x, y) == <<x - start[1], y - start[2]>>

\* CLAMP(-(angle - current_axis) / maxdecl, -1, 1) snapped to zero, kept
\* as the pair it is computed from
forceOf(angle, current_axis) == [angle |-> angle, against |-> current_axis]

\* Rotateable::on_click
on_click(w, x, y, state) ==
    [w |-> [w EXCEPT !.drag_started = <<x, y>>,
                     !.modifier = get_single_modifier(w.modifier, state),
                     !.dragging = TRUE,
                     !.working = FALSE,
                     !.current_axis = "axis"],
     ret |-> "NONE", invoked |-> <<>>]

\* Variant: motion is handled whether or not a drag is active
on_motion_noDragCheck(w, x, y, state) ==
    LET angle == angleFrom(w.drag_started, x, y)
        force == forceOf(angle, w.current_axis)
        new_modifier == get_single_modifier(w.modifier, state)
    IN  IF ~farFrom(w.drag_started, x, y)
        THEN [w |-> w, ret |-> "void", invoked |-> <<>>]
        ELSE IF w.modifier # new_modifier
        THEN [w |-> [w EXCEPT !.working = TRUE, !.current_axis = angle,
                              !.modifier = new_modifier],
              ret |-> "void", invoked |-> <<<<"do_release", force, w.modifier>>>>]
        ELSE [w |-> [w EXCEPT !.working = TRUE],
              ret |-> "void", invoked |-> <<<<"do_motion", force, w.modifier>>>>]

\* Rotateable::on_motion
on_motion(w, x, y, state) ==
    LET angle == angleFrom(w.drag_started, x, y)
        force == forceOf(angle, w.current_axis)
        new_modifier == get_single_modifier(w.modifier, state)
    IN  IF ~w.dragging \/ ~farFrom(w.drag_started, x, y)
        THEN [w |-> w, ret |-> "void", invoked |-> <<>>]
        ELSE IF w.modifier # new_modifier
        THEN [w |-> [w EXCEPT !.working = TRUE, !.current_axis = angle,
                              !.modifier = new_modifier],
              ret |-> "void", invoked |-> <<<<"do_release", force, w.modifier>>>>]
        ELSE [w |-> [w EXCEPT !.working = TRUE],
              ret |-> "void", invoked |-> <<<<"do_motion", force, w.modifier>>>>]

\* Rotateable::on_release
on_release(w, x, y) ==
    LET angle == angleFrom(w.drag_started, x, y)
        force == forceOf(angle, w.current_axis)
    IN  IF w.dragging /\ w.working
        THEN [w |-> [w EXCEPT !.current_axis = "axis", !.dragging = FALSE,
                              !.working = FALSE],
              ret |-> "CLAIMED", invoked |-> <<<<"do_release", force, w.modifier>>>>]
        ELSE [w |-> [w EXCEPT !.dragging = FALSE, !.working = FALSE],
              ret |-> "NONE", invoked |-> <<>>]

\* CLAMP(dy, -1.0, 1.0)
CLAMP(v, lo, hi) == IF v < lo THEN lo ELSE IF v > hi THEN hi ELSE v

\* Rotateable::on_scroll
on_scroll(w, dy, state) ==
    LET change == 0 - CLAMP(dy, -1, 1)
        modifier == get_single_modifier(w.modifier, state)
    IN  [w |-> [w EXCEPT !.modifier = modifier, !.dragging = FALSE, !.working = FALSE,
                         !.scrolling = FALSE, !.current_axis = "axis"],
         ret |-> "true", invoked |-> <<<<"do_scroll", change, modifier>>>>]

\* ----------------------------------------------------------- StatusBar

\* The four handlers that share StatusBar::_blocker
Handlers == {"zoom_value_changed", "update_zoom", "rotate_value_changed", "update_rotate"}

\* Values the desktop reports for zoom (as log2) and rotation (degrees)
ZoomValues == {0, 1}
RotateValues == {0, 90}

\* OperationBlocker: a count of live guards. pending() tells whether one
\* is alive, block() makes one, a guard's destructor gives it back.
pending(blocker) == blocker > 0
block(blocker) == blocker + 1

\* Variant: a guard going out of scope does not give the block back
unblock_leaks(blocker) == blocker

unblock(blocker) == blocker - 1

\* The StatusBar after construction: no guard alive, no handler running
StatusBar ==
    [_blocker |-> 0, running |-> <<>>, zoom_value |-> 0, rotate_value |-> 0]

\* What a handler does once past the blocker, up to its return. window
\* tells whether get_root() is an ApplicationWindow, v is the value the
\* desktop reports.
body(sb, handler, window, v) ==
    CASE handler = "zoom_value_changed" ->
            [sb |-> sb,
             did |-> IF window THEN <<"activate_action", "win.canvas-zoom-absolute", sb.zoom_value>>
                     ELSE <<"cerr">>]
      [] handler = "rotate_value_changed" ->
            [sb |-> sb,
             did |-> IF window
                     THEN <<"activate_action", "win.canvas-rotate-absolute-degrees", sb.rotate_value>>
                     ELSE <<"cerr">>]
      [] handler = "update_zoom" ->
            [sb |-> [sb EXCEPT !.zoom_value = v], did |-> <<"set_value", "zoom_value", v>>]
      [] handler = "update_rotate" ->
            [sb |-> [sb EXCEPT !.rotate_value = v], did |-> <<"set_value", "rotate_value", v>>]

\* Entry of a handler: return at once when the blocker is pending, else
\* take a guard and do the body. The handler stays in progress (the action
\* or the spin button may call back) until it returns.
enter(sb, handler, window, v) ==
    IF pending(sb._blocker)
    THEN [sb |-> sb, returned |-> TRUE, did |-> <<>>]
    ELSE LET held == [sb EXCEPT !._blocker = block(sb._blocker),
                                !.running = Append(sb.running, handler)]
         IN  [sb |-> body(held, handler, window, v).sb, returned |-> FALSE,
              did |-> body(held, handler, window, v).did]

\* Return of the innermost handler in progress: its guard is destroyed
leave(sb) ==
    [sb EXCEPT !._blocker = unblock(sb._blocker),
               !.running = SubSeq(sb.running, 1, Len(sb.running) - 1)]

\* ------------------------------------------------------------- Manager

\* The built-in space objects, in the order Manager::Manager creates them
BuiltIns ==
    <<"RGB", "NamedColor", "DeviceCMYK", "Gray", "HSL", "HSLuv", "HSV", "Lab",
      "LinearRGB", "Lch", "Luv", "OkHsl", "OkLab", "OkLch", "XYZ">>

\* Space objects created later and handed to addSpace
Extras == {"RGB_2", "Lab_2", "CMS_A", "CMS_B"}

Range(f) == {f[i] : i \in DOMAIN f}

Objects == Range(BuiltIns) \cup Extras

\* AnySpace::getType of a space object
getType(space) ==
    CASE space = "DeviceCMYK" -> "CMYK"
      [] space = "RGB_2" -> "RGB"
      [] space = "Lab_2" -> "Lab"
      [] space \in {"CMS_A", "CMS_B"} -> "CMS"
      [] OTHER -> space

\* Manager::find(Space::Type): the first registered space of that type, or null
find(list, type) ==
    LET hits == {i \in DOMAIN list : getType(list[i]) = type}
    IN  IF hits = {} THEN nullptr
        ELSE list[CHOOSE i \in hits : \A j \in hits : i <= j]

\* AnySpace::getName of a space object
getName(space) ==
    CASE space = "RGB_2" -> "RGB"
      [] space = "Lab_2" -> "Lab"
      [] space = "CMS_A" -> "iccA"
      [] space = "CMS_B" -> "RGB"
      [] OTHER -> space

\* Variant: the last registered space of that name
findName_lastMatch(list, name) ==
    LET hits == {i \in DOMAIN list : getName(list[i]) = name}
    IN  IF hits = {} THEN nullptr
        ELSE list[CHOOSE i \in hits : \A j \in hits : i >= j]

\* Manager::find(std::string): the first registered space of that name, or null
findName(list, name) ==
    LET hits == {i \in DOMAIN list : getName(list[i]) = name}
    IN  IF hits = {} THEN nullptr
        ELSE list[CHOOSE i \in hits : \A j \in hits : i <= j]

\* Space::Traits flags; a Traits value is a set of them, None the empty set
TraitFlags == {"Internal", "Picker", "CMS"}
None == {}

\* space->getComponents().traits()
traits(space) ==
    CASE getType(space) = "CMS" -> {"CMS"}
      [] getType(space) \in {"NamedColor", "Gray", "LinearRGB", "Luv", "XYZ"} -> {"Internal"}
      [] OTHER -> {"Internal", "Picker"}

\* Variant: a space must carry every requested flag
spaces_allFlags(list, t) ==
    SelectSeq(list, LAMBDA p : t \subseteq traits(p))

\* Manager::spaces(Space::Traits): copy_if of the spaces whose traits
\* share a flag with the request
spaces(list, t) ==
    SelectSeq(list, LAMBDA p : (traits(p) \cap t) # None)

\* Variant: no check of the type
addSpace_unchecked(list, space) ==
    [threw |-> FALSE, list |-> Append(list, space), ref |-> space]

\* Variant: the space is appended before the type is checked
addSpace_appendsBeforeCheck(list, space) ==
    IF find(list, getType(space)) # nullptr
    THEN [threw |-> TRUE, list |-> Append(list, space), ref |-> nullptr]
    ELSE [threw |-> FALSE, list |-> Append(list, space), ref |-> space]

\* Variant: the new space goes to the front
addSpace_prepends(list, space) ==
    IF find(list, getType(space)) # nullptr
    THEN [threw |-> TRUE, list |-> list, ref |-> nullptr]
    ELSE [threw |-> FALSE, list |-> <<space>> \o list, ref |-> space]

\* Manager::addSpace: throws when the type is registered, else appends
\* and returns the new back element.
addSpace(list, space) ==
    IF find(list, getType(space)) # nullptr
    THEN [threw |-> TRUE, list |-> list, ref |-> nullptr]
    ELSE [threw |-> FALSE, list |-> Append(list, space), ref |-> space]

\* Variant: every space of the argument's type is erased
removeSpace_byType(list, space) ==
    LET kept == SelectSeq(list, LAMBDA x : getType(x) # getType(space))
    IN  [list |-> kept, ret |-> Len(list) - Len(kept) # 0]

\* Variant: the number of matches is reported, nothing is erased
removeSpace_reportsOnly(list, space) ==
    LET kept == SelectSeq(list, LAMBDA x : x # space)
    IN  [list |-> list, ret |-> Len(list) - Len(kept) # 0]

\* Manager::removeSpace: std::erase of every element equal to the pointer
removeSpace(list, space) ==
    LET kept == SelectSeq(list, LAMBDA x : x # space)
    IN  [list |-> kept, ret |-> Len(list) - Len(kept) # 0]

\* Variant: the built-ins are registered last to first
RECURSIVE construct_lastFirst(_, _)
construct_lastFirst(list, todo) ==
    IF todo = <<>> THEN [threw |-> FALSE, list |-> list]
    ELSE LET r == addSpace(list, todo[Len(todo)])
         IN  IF r.threw THEN [threw |-> TRUE, list |-> r.list]
             ELSE construct_lastFirst(r.list, SubSeq(todo, 1, Len(todo) - 1))

\* Manager::Manager: addSpace of each built-in in turn; a throw ends it
RECURSIVE construct(_, _)
construct(list, todo) ==
    IF todo = <<>> THEN [threw |-> FALSE, list |-> list]
    ELSE LET r == addSpace(list, Head(todo))
         IN  IF r.threw THEN [threw |-> TRUE, list |-> r.list]
             ELSE construct(r.list, Tail(todo))

Manager == construct(<<>>, BuiltIns)

\* ---------------------------------------------------------------- Init

NoQuery == [op |-> "none", arg |-> nullptr, mask |-> None, ref |-> nullptr, list |-> <<>>]

\* Threads of a multi-threaded host, and the space object they share
Threads == {"t1", "t2"}
SharedSource == "RGB"

\* A thread outside any AnySpace call
Idle == [pc |-> "idle", op |-> "none", to |-> SharedSource, key |-> "", obj |-> nullptr,
         ret |-> FALSE]

NoEntry == [handler |-> "none", nested |-> FALSE, returned |-> FALSE, did |-> <<>>]

NoEvent == [op |-> "none", x |-> 0, y |-> 0, state |-> {}, old |-> 0, ret |-> "void",
            invoked |-> <<>>]

NoAccess == [op |-> "none", space |-> nullptr, ret |-> FALSE, size |-> 0,
             indices |-> {}, ub |-> "none", text |-> <<>>,
             before |-> <<>>, after |-> <<>>]

NoCall ==
    [op |-> "none", from |-> "RGB", to |-> "RGB", input |-> <<>>, io |-> Value(<<>>),
     ret |-> FALSE, stages |-> <<>>, built |-> FALSE, used |-> "none", key |-> ""]

Constructed ==
    /\ _transforms = [s \in Instances |-> <<>>]
    /\ _gamut_checkers = [s \in Instances |-> <<>>]
    /\ factoryCalls = <<>>
    /\ checkerCalls = <<>>
    /\ last = NoCall
    /\ calls = 0
    /\ crashed = FALSE
    /\ ~Manager.threw
    /\ _spaces = Manager.list
    /\ owned = Range(BuiltIns)
    /\ mgrLast = [op |-> "none", arg |-> nullptr, threw |-> FALSE, ref |-> nullptr, ret |-> FALSE]
    /\ mgrOps = 0
    /\ query = NoQuery
    /\ access = NoAccess
    /\ threads = [t \in Threads |-> Idle]
    /\ raced = FALSE
    /\ rot = Rotateable
    /\ rotLast = NoEvent
    /\ sinceClick = "none"
    /\ statusbar = StatusBar
    /\ sbLast = NoEntry
    /\ sbCalls = 0

\* No caller holds a vector
Init ==
    /\ Constructed
    /\ values = Held(<<>>)

\* A caller holds a vector of any length up to MaxLen
InitValues ==
    /\ Constructed
    /\ values \in {Held(v) : v \in Vectors}

\* ------------------------------------------------------ AnySpace calls

\* from->convert(io, to) with io = v
Convert(from, to, v, made, ok) ==
    LET r == convert(_transforms[from], Value(v), from, to, made, ok)
        key == r.key
    IN  /\ calls < MaxCalls
        /\ ~crashed
        \* a choice the call never consulted is not varied
        /\ ~r.built => made
        /\ r.used \in {"none", "null"} => ok
        /\ _transforms' = [_transforms EXCEPT ![from] = r.cache]
        /\ factoryCalls' = IF r.built THEN Counted(factoryCalls, <<from, key>>)
                           ELSE factoryCalls
        /\ last' = [op |-> "convert", from |-> from, to |-> to, input |-> v,
                    io |-> r.io, ret |-> r.ret, stages |-> r.stages,
                    built |-> r.built, used |-> r.used, key |-> key]
        /\ calls' = calls + 1
        /\ UNCHANGED <<_gamut_checkers, checkerCalls, crashed>>
        /\ UNCHANGED mgrVars
        /\ UNCHANGED dataVars
        /\ UNCHANGED threadVars
        /\ UNCHANGED rotVars
        /\ UNCHANGED sbVars

\* from->outOfGamut(v, to)
OutOfGamut(from, to, v, made, res, die) ==
    LET r == outOfGamut(_gamut_checkers[from], v, from, to, made, res, die)
        id == getId(getProfile(to))
    IN  /\ calls < MaxCalls
        /\ ~crashed
        \* a choice the call never consulted is not varied
        /\ ~r.built => made
        /\ r.checker = "none" => res
        /\ r.checker # "null" => ~die
        /\ die => ~res
        /\ _gamut_checkers' = [_gamut_checkers EXCEPT ![from] = r.cache]
        /\ checkerCalls' = IF r.built THEN Counted(checkerCalls, <<from, id>>)
                           ELSE checkerCalls
        /\ last' = [op |-> "outOfGamut", from |-> from, to |-> to, input |-> v,
                    io |-> Value(v), ret |-> r.ret, stages |-> <<>>,
                    built |-> r.built, used |-> r.checker, key |-> id]
        /\ calls' = calls + 1
        /\ crashed' = r.crashed
        /\ UNCHANGED <<_transforms, factoryCalls>>
        /\ UNCHANGED mgrVars
        /\ UNCHANGED dataVars
        /\ UNCHANGED threadVars
        /\ UNCHANGED rotVars
        /\ UNCHANGED sbVars

NextConvert ==
    \/ \E from \in Instances, to \in Instances, v \in Inputs, made \in BOOLEAN, ok \in BOOLEAN :
          Convert(from, to, v, made, ok)
    \/ \E from \in Instances, to \in Instances, v \in Inputs,
          made \in BOOLEAN, res \in BOOLEAN, die \in BOOLEAN :
          OutOfGamut(from, to, v, made, res, die)

SpecConvert == Init /\ [][NextConvert]_vars

\* ------------------------------------------------------- Manager calls

\* manager.addSpace(space) with a space object not handed over before
AddSpace(space) ==
    LET r == addSpace(_spaces, space)
    IN  /\ mgrOps < MaxMgrOps
        /\ space \notin owned
        /\ _spaces' = r.list
        /\ owned' = IF r.threw THEN owned ELSE owned \cup {space}
        /\ mgrLast' = [op |-> "addSpace", arg |-> space, threw |-> r.threw,
                       ref |-> r.ref, ret |-> FALSE]
        /\ mgrOps' = mgrOps + 1
        /\ query' = NoQuery
        /\ UNCHANGED convVars
        /\ UNCHANGED dataVars
        /\ UNCHANGED threadVars
        /\ UNCHANGED rotVars
        /\ UNCHANGED sbVars

\* manager.removeSpace(space)
RemoveSpace(space) ==
    LET r == removeSpace(_spaces, space)
    IN  /\ mgrOps < MaxMgrOps
        /\ _spaces' = r.list
        /\ mgrLast' = [op |-> "removeSpace", arg |-> space, threw |-> FALSE,
                       ref |-> nullptr, ret |-> r.ret]
        /\ mgrOps' = mgrOps + 1
        /\ query' = NoQuery
        /\ UNCHANGED owned
        /\ UNCHANGED convVars
        /\ UNCHANGED dataVars
        /\ UNCHANGED threadVars
        /\ UNCHANGED rotVars
        /\ UNCHANGED sbVars

\* Types and names looked up, and trait masks asked for
QueryTypes == {"RGB", "CMYK", "CMS"}
QueryNames == {"RGB", "DeviceCMYK", "iccA"}
QueryTraits == {None, {"Picker"}, {"CMS"}, {"CMS", "Picker"}}

\* manager.find(type)
FindType(type) ==
    /\ query' = [op |-> "findType", arg |-> type, mask |-> None,
                 ref |-> find(_spaces, type), list |-> <<>>]
    /\ UNCHANGED <<_spaces, owned, mgrLast, mgrOps>>
    /\ UNCHANGED convVars
    /\ UNCHANGED dataVars
    /\ UNCHANGED threadVars
    /\ UNCHANGED rotVars
    /\ UNCHANGED sbVars

\* manager.find(name)
FindName(name) ==
    /\ query' = [op |-> "findName", arg |-> name, mask |-> None,
                 ref |-> findName(_spaces, name), list |-> <<>>]
    /\ UNCHANGED <<_spaces, owned, mgrLast, mgrOps>>
    /\ UNCHANGED convVars
    /\ UNCHANGED dataVars
    /\ UNCHANGED threadVars
    /\ UNCHANGED rotVars
    /\ UNCHANGED sbVars

\* manager.spaces(t)
Spaces(t) ==
    /\ query' = [op |-> "spaces", arg |-> nullptr, mask |-> t,
                 ref |-> nullptr, list |-> spaces(_spaces, t)]
    /\ UNCHANGED <<_spaces, owned, mgrLast, mgrOps>>
    /\ UNCHANGED convVars
    /\ UNCHANGED dataVars
    /\ UNCHANGED threadVars
    /\ UNCHANGED rotVars
    /\ UNCHANGED sbVars

NextManager ==
    \/ \E space \in Objects : AddSpace(space)
    \/ \E space \in Objects : RemoveSpace(space)
    \/ \E type \in QueryTypes : FindType(type)
    \/ \E name \in QueryNames : FindName(name)
    \/ \E t \in QueryTraits : Spaces(t)

SpecManager == Init /\ [][NextManager]_vars

\* ------------------------------------------------ calls on a vector

\* space.isValidData(values)
IsValidData(space) ==
    /\ access.ub # "crash"
    /\ access' = [op |-> "isValidData", space |-> space,
                  ret |-> isValidData(space, values.v), size |-> Len(values.v),
                  indices |-> {}, ub |-> "none", text |-> <<>>,
                  before |-> <<>>, after |-> <<>>]
    /\ UNCHANGED values
    /\ UNCHANGED <<convVars, mgrVars, threadVars, rotVars, sbVars>>

\* Lab::scaleUp, scaleDown, toXYZ or fromXYZ on values, in place. With an
\* index past the end the call is undefined: the process dies, or it goes
\* on with memory outside the vector read and written.
LabInPlace(op, ub) ==
    LET idx == indices(op, values.v, FALSE)
    IN  /\ access.ub # "crash"
        /\ Len(values.ops) < MaxLabOps
        /\ ub = "none" <=> ~pastEnd(idx, values.v)
        /\ ub = "none" => computable(op, values.now)
        /\ access' = [op |-> op, space |-> "Lab", ret |-> FALSE, size |-> Len(values.v),
                      indices |-> idx, ub |-> ub, text |-> <<>>,
                      before |-> <<>>, after |-> <<>>]
        /\ \E w \in CASE ub = "none" -> {inPlace(op, values.now)}
                      [] ub = "silent" -> overrun(op, values.now)
                      [] ub = "crash" -> {values.now} :
               values' = IF ub = "crash" THEN values
                         ELSE [apply(values, <<op>>) EXCEPT !.now = w]
        /\ UNCHANGED <<convVars, mgrVars, threadVars, rotVars, sbVars>>

\* lab.toString(values, opacity). With an index past the end the call is
\* undefined: the process dies, or it prints whatever lay behind the vector.
LabToString(opacity, ub) ==
    LET idx == indices("toString", values.v, opacity)
        v == values.now
    IN  /\ access.ub # "crash"
        /\ ub = "none" <=> ~pastEnd(idx, values.v)
        /\ ub = "none" => computable("toString", v)
        /\ \E text \in CASE ub = "none" -> {toString(v, opacity)}
                         [] ub = "silent" ->
                                {toString(v \o [i \in 1 .. (3 - Len(v)) |-> c], opacity)
                                     : c \in Channels}
                         [] ub = "crash" -> {<<>>} :
               access' = [op |-> "toString", space |-> "Lab", ret |-> opacity,
                          size |-> Len(values.v), indices |-> idx, ub |-> ub, text |-> text,
                          before |-> <<>>, after |-> <<>>]
        /\ UNCHANGED values
        /\ UNCHANGED <<convVars, mgrVars, threadVars, rotVars, sbVars>>

\* The texts a caller has at hand: the one toString has just printed, and,
\* for a caller that holds no vector, those of CssTexts
texts ==
    (IF access.op = "toString" /\ access.ub = "none" THEN {access.text} ELSE {})
        \cup (IF values.v = <<>> THEN CssTexts ELSE {})

\* Lab::Parser::parse on a channel text and an output vector
LabParse(output) ==
    /\ access.ub # "crash"
    /\ \E ss \in texts :
           access' = [op |-> "parse", space |-> "Lab", ret |-> parse(ss, output).ret,
                      size |-> Len(output), indices |-> {}, ub |-> "none", text |-> ss,
                      before |-> output, after |-> parse(ss, output).output]
    /\ UNCHANGED values
    /\ UNCHANGED <<convVars, mgrVars, threadVars, rotVars, sbVars>>

NextValues ==
    \/ \E space \in DataSpaces : IsValidData(space)
    \/ \E op \in LabOps \ {"toString"}, ub \in {"none", "crash", "silent"} : LabInPlace(op, ub)
    \/ \E opacity \in BOOLEAN, ub \in {"none", "crash", "silent"} : LabToString(opacity, ub)
    \/ \E output \in Outputs : LabParse(output)

SpecValues == InitValues /\ [][NextValues]_vars

\* ------------------------------------- AnySpace calls from two threads

\* The cache map a call works on, of the shared space
cacheOf(op) ==
    IF op = "convert" THEN _transforms[SharedSource] ELSE _gamut_checkers[SharedSource]

\* Another thread is in the middle of an emplace into the same map
inserting(t) ==
    \E u \in Threads \ {t} :
        threads[u].pc = "inserting" /\ threads[u].op = threads[t].op

\* An access to a map another thread is inserting into is a data race:
\* the process may die of it (die), or go on.
Racing(t, die) ==
    /\ die => inserting(t)
    /\ raced' = (raced \/ inserting(t))
    /\ crashed' = die

\* Thread t enters SharedSource->convert(io, to) or ->outOfGamut(io, to):
\* the call returns at once when the profiles are equal, and otherwise
\* stands before the lookup of its key.
Begin(t, op, to) ==
    /\ ~crashed
    /\ calls < MaxCalls
    /\ threads[t].pc = "idle"
    /\ calls' = calls + 1
    /\ threads' = [threads EXCEPT ![t] =
          IF sameProfile(SharedSource, to)
          THEN [Idle EXCEPT !.op = op, !.to = to, !.ret = (op = "convert")]
          ELSE [pc |-> "check", op |-> op, to |-> to,
                key |-> IF op = "convert" THEN transformKey(SharedSource, to)
                        ELSE checkerKey(SharedSource, to),
                obj |-> nullptr, ret |-> FALSE]]
    /\ UNCHANGED <<_transforms, _gamut_checkers, factoryCalls, checkerCalls, last, crashed, raced>>
    /\ UNCHANGED <<mgrVars, dataVars, rotVars, sbVars>>

\* The lookup: _transforms.contains(key) / _gamut_checkers.find(key)
Check(t, die) ==
    /\ ~crashed
    /\ threads[t].pc = "check"
    /\ Racing(t, die)
    /\ threads' = [threads EXCEPT ![t].pc =
          IF cacheMiss(cacheOf(threads[t].op), threads[t].key) THEN "create" ELSE "use"]
    /\ UNCHANGED <<_transforms, _gamut_checkers, factoryCalls, checkerCalls, last, calls>>
    /\ UNCHANGED <<mgrVars, dataVars, rotVars, sbVars>>

\* The factory call that builds emplace's argument
Create(t, made) ==
    LET me == threads[t]
        from_profile == getProfile(SharedSource)
        to_profile == getProfile(me.to)
    IN  /\ ~crashed
        /\ me.pc = "create"
        /\ threads' = [threads EXCEPT ![t].pc = "insert",
              ![t].obj = IF me.op = "convert"
                         THEN create_for_cms(from_profile, to_profile,
                                             chooseIntent(SharedSource, me.to), made)
                         ELSE create_for_cms_checker(from_profile, to_profile, made)]
        /\ factoryCalls' = IF me.op = "convert"
                           THEN Counted(factoryCalls, <<SharedSource, me.key>>)
                           ELSE factoryCalls
        /\ checkerCalls' = IF me.op = "convert" THEN checkerCalls
                           ELSE Counted(checkerCalls, <<SharedSource, me.key>>)
        /\ UNCHANGED <<_transforms, _gamut_checkers, last, calls, crashed, raced>>
        /\ UNCHANGED <<mgrVars, dataVars, rotVars, sbVars>>

\* emplace starts working on the map
InsertBegin(t, die) ==
    /\ ~crashed
    /\ threads[t].pc = "insert"
    /\ Racing(t, die)
    /\ threads' = [threads EXCEPT ![t].pc = "inserting"]
    /\ UNCHANGED <<_transforms, _gamut_checkers, factoryCalls, checkerCalls, last, calls>>
    /\ UNCHANGED <<mgrVars, dataVars, rotVars, sbVars>>

\* emplace is done: the entry is in the map unless the key was there
InsertEnd(t) ==
    LET me == threads[t]
        after == emplace(cacheOf(me.op), me.key, me.obj)
    IN  /\ ~crashed
        /\ me.pc = "inserting"
        /\ threads' = [threads EXCEPT ![t].pc = "use"]
        /\ _transforms' = IF me.op = "convert"
                          THEN [_transforms EXCEPT ![SharedSource] = after]
                          ELSE _transforms
        /\ _gamut_checkers' = IF me.op = "convert" THEN _gamut_checkers
                              ELSE [_gamut_checkers EXCEPT ![SharedSource] = after]
        /\ UNCHANGED <<factoryCalls, checkerCalls, last, calls, crashed, raced>>
        /\ UNCHANGED <<mgrVars, dataVars, rotVars, sbVars>>

\* The map's operator[] and the call on the object found; the thread
\* returns. An entry another thread has not finished inserting may not be
\* there yet: the access is then undefined like any other racing one, and
\* reads as null here.
Use(t, ok, die) ==
    LET me == threads[t]
        cache == cacheOf(me.op)
        found == IF me.key \in DOMAIN cache THEN cache[me.key] ELSE nullptr
        ret == IF me.op = "convert" THEN useTransform(found, Value(<<1, 0, 0>>), ok).ret
               ELSE ok
    IN  /\ ~crashed
        /\ me.pc = "use"
        /\ die => (inserting(t) \/ (me.op = "outOfGamut" /\ found = nullptr))
        /\ (me.op = "convert" /\ found = nullptr) => ok
        /\ die => ~ok
        /\ raced' = (raced \/ inserting(t))
        /\ crashed' = die
        /\ threads' = [threads EXCEPT ![t] = [me EXCEPT !.pc = "idle", !.ret = ret /\ ~die]]
        /\ UNCHANGED <<_transforms, _gamut_checkers, factoryCalls, checkerCalls, last, calls>>
        /\ UNCHANGED <<mgrVars, dataVars, rotVars, sbVars>>

NextThreads ==
    \/ \E t \in Threads, op \in {"convert", "outOfGamut"}, to \in Instances : Begin(t, op, to)
    \/ \E t \in Threads, die \in BOOLEAN : Check(t, die)
    \/ \E t \in Threads, made \in BOOLEAN : Create(t, made)
    \/ \E t \in Threads, die \in BOOLEAN : InsertBegin(t, die)
    \/ \E t \in Threads : InsertEnd(t)
    \/ \E t \in Threads, ok \in BOOLEAN, die \in BOOLEAN : Use(t, ok, die)

SpecThreads == Init /\ [][NextThreads]_vars

\* --------------------------------------------------- Rotateable events

\* One event handler has run with result r
Handled(op, x, y, state, r) ==
    /\ rot' = r.w
    /\ rotLast' = [op |-> op, x |-> x, y |-> y, state |-> state, old |-> rot.modifier,
                   ret |-> r.ret, invoked |-> r.invoked]
    /\ UNCHANGED <<convVars, mgrVars, dataVars, threadVars, sbVars>>

\* GestureClick pressed
OnClick(x, y, state) ==
    /\ Handled("on_click", x, y, state, on_click(rot, x, y, state))
    /\ sinceClick' = "pressed"

\* EventControllerMotion motion
OnMotion(x, y, state) ==
    /\ Handled("on_motion", x, y, state, on_motion(rot, x, y, state))
    /\ sinceClick' = IF sinceClick # "none" /\ farFrom(rot.drag_started, x, y)
                     THEN "moved" ELSE sinceClick

\* GestureClick released
OnRelease(x, y) ==
    /\ Handled("on_release", x, y, {}, on_release(rot, x, y))
    /\ sinceClick' = "none"

\* EventControllerScroll scroll
OnScroll(dy, state) ==
    /\ Handled("on_scroll", 0, dy, state, on_scroll(rot, dy, state))
    /\ sinceClick' = "none"

NextRotateable ==
    \/ \E x \in Xs, y \in Ys, state \in States : OnClick(x, y, state)
    \/ \E x \in Xs, y \in Ys, state \in States : OnMotion(x, y, state)
    \/ \E x \in Xs, y \in Ys : OnRelease(x, y)
    \/ \E dy \in Dys, state \in States : OnScroll(dy, state)

SpecRotateable == Init /\ [][NextRotateable]_vars

\* -------------------------------------------------- StatusBar handlers

\* A handler is called: from the toolkit's main loop when none is in
\* progress, or from inside the action or set_value of the one in progress.
Enter(handler, window, v) ==
    LET r == enter(statusbar, handler, window, v)
    IN  /\ sbCalls < MaxSbCalls
        \* a choice the call never consulted is not varied
        /\ (r.returned \/ handler \in {"update_zoom", "update_rotate"}) => window
        /\ (r.returned \/ handler \in {"zoom_value_changed", "rotate_value_changed"}) => v = 0
        /\ handler = "update_zoom" => v \in ZoomValues
        /\ handler = "update_rotate" => v \in RotateValues
        /\ statusbar' = r.sb
        /\ sbLast' = [handler |-> handler, nested |-> statusbar.running # <<>>,
                      returned |-> r.returned, did |-> r.did]
        /\ sbCalls' = sbCalls + 1
        /\ UNCHANGED <<convVars, mgrVars, dataVars, threadVars, rotVars>>

\* The innermost handler in progress returns
Leave ==
    /\ statusbar.running # <<>>
    /\ statusbar' = leave(statusbar)
    /\ UNCHANGED <<sbLast, sbCalls>>
    /\ UNCHANGED <<convVars, mgrVars, dataVars, threadVars, rotVars>>

NextStatusBar ==
    \/ \E handler \in Handlers, window \in BOOLEAN, v \in ZoomValues \cup RotateValues :
          Enter(handler, window, v)
    \/ Leave

SpecStatusBar == Init /\ [][NextStatusBar]_vars

\* ============================================================= claims

\* What the last call was
LastConvert == last.op = "convert"
LastDiffer == ~(getProfile(last.from) = getProfile(last.to))
\* The last call's input after the source space's stage 1
LastEncoded == spaceToProfile(last.from, Value(last.input))
\* The documented intent for a pair: the source's unless UNKNOWN, else the
\* destination's unless UNKNOWN, else PERCEPTUAL
PrescribedIntent(from, to) ==
    IF getIntent(from) # "UNKNOWN" THEN getIntent(from)
    ELSE IF getIntent(to) # "UNKNOWN" THEN getIntent(to)
    ELSE "PERCEPTUAL"
PrescribedKey(from, to) ==
    getChecksum(getProfile(to)) \o intentIds[PrescribedIntent(from, to)]
\* This step is one AnySpace call
CallStep == calls' = calls + 1

\* C1: when stage 2 of convert fails, convert returns false, its third call
\* is the SOURCE space's profileToSpace, the destination's profileToSpace is
\* not called, and io ends as source.profileToSpace(source.spaceToProfile(
\* original io)).
C1_FailedConvertDecodesWithSource ==
    (LastConvert /\ last.used \in {"null", "refused"}) =>
        /\ last.ret = FALSE
        /\ last.stages = <<<<"spaceToProfile", last.from>>,
                           <<"profileToProfile", last.from, last.to>>,
                           <<"profileToSpace", last.from>>>>
        /\ \A i \in DOMAIN last.stages : last.stages[i] # <<"profileToSpace", last.to>>
        /\ last.io = profileToSpace(last.from, LastEncoded)

\* C1 witness: a convert between overriding spaces failed on a null transform
C1_Witness ==
    /\ LastConvert
    /\ last.used = "null"
    /\ ~last.ret
    /\ overridesHooks(last.from)
    /\ overridesHooks(last.to)

\* C2 as stated: convert returns false exactly when the profiles differ and
\* the cached transform for the chosen intent is null; whenever a transform
\* object exists it returns true.
C2_FalseExactlyWhenNullTransform ==
    LastConvert =>
        (last.ret = FALSE <=>
            (LastDiffer /\ _transforms[last.from][last.key] = nullptr))

\* C2 amended: convert returns false exactly when the profiles differ and
\* either the cached transform is null or the transform exists and its
\* do_transform returns false; in every other case it returns true.
C2_FalseWhenNullOrRefused ==
    LastConvert =>
        /\ last.ret = FALSE <=>
              (LastDiffer /\ (_transforms[last.from][last.key] = nullptr
                              \/ last.used = "refused"))
        /\ last.used = "refused" => _transforms[last.from][last.key] # nullptr
        /\ last.used = "null" <=>
              (LastDiffer /\ _transforms[last.from][last.key] = nullptr)

\* C2 witness: a convert returned false on a null cache entry
C2_Witness ==
    /\ LastConvert
    /\ LastDiffer
    /\ ~last.ret
    /\ _transforms[last.from][last.key] = nullptr

\* C3: a successful convert makes exactly three calls in order: the source's
\* spaceToProfile, profileToProfile, the DESTINATION's profileToSpace, all on
\* the one vector; the source's profileToSpace is not called.
C3_SuccessRunsThreeStages ==
    (LastConvert /\ last.ret) =>
        /\ last.stages = <<<<"spaceToProfile", last.from>>,
                           <<"profileToProfile", last.from, last.to>>,
                           <<"profileToSpace", last.to>>>>
        /\ last.from # last.to =>
              \A i \in DOMAIN last.stages :
                  last.stages[i] # <<"profileToSpace", last.from>>
        /\ last.io = profileToSpace(last.to,
              IF LastDiffer
              THEN apply(LastEncoded,
                         <<"do_transform", _transforms[last.from][last.key]>>)
              ELSE LastEncoded)

\* C3 witness: a convert through a transform between overriding spaces succeeded
C3_Witness ==
    /\ LastConvert
    /\ last.ret
    /\ last.used = "applied"
    /\ overridesHooks(last.from)
    /\ overridesHooks(last.to)

\* C4: a convert between spaces of equal profiles invokes no factory, adds
\* no cache entry, leaves io unchanged in stage 2 and returns true; with the
\* default hooks on both sides it leaves io unchanged altogether.
C4_SameProfileNoOp ==
    [][(CallStep /\ last'.op = "convert"
            /\ getProfile(last'.from) = getProfile(last'.to)) =>
        /\ _transforms' = _transforms
        /\ factoryCalls' = factoryCalls
        /\ ~last'.built
        /\ last'.ret
        /\ last'.io = profileToSpace(last'.to,
                          spaceToProfile(last'.from, Value(last'.input)))
        /\ (~overridesHooks(last'.from) /\ ~overridesHooks(last'.to)) =>
              last'.io = Value(last'.input)]_vars

\* C4 witness: a convert between two distinct instances on one profile
C4_Witness ==
    /\ LastConvert
    /\ last.from # last.to
    /\ getProfile(last.from) = getProfile(last.to)
    /\ last.ret

\* C5: per source instance the factory is invoked at most once per cache
\* key, exactly for the keys the cache holds; a convert whose key is cached
\* constructs nothing.
C5_FactoryOncePerKey ==
    /\ \A c \in DOMAIN factoryCalls :
          /\ factoryCalls[c] <= 1
          /\ c[2] \in DOMAIN _transforms[c[1]]
    /\ \A s \in Instances : \A k \in DOMAIN _transforms[s] :
          Count(factoryCalls, <<s, k>>) = 1
    /\ (LastConvert /\ LastDiffer /\ ~last.built) =>
          Count(factoryCalls, <<last.from, last.key>>) = 1

\* C5 witness: a second convert with the key of an earlier one hit the cache
\* and applied the cached transform
C5_Witness ==
    /\ LastConvert
    /\ calls = 2
    /\ LastDiffer
    /\ ~last.built
    /\ last.used = "applied"
    /\ Count(factoryCalls, <<last.from, last.key>>) = 1

\* C6: a null result of the factory is stored under its key, and every
\* later convert with that key returns false without invoking the factory.
C6_NegativeCaching ==
    [][(CallStep /\ last'.op = "convert") =>
        /\ (last'.built /\ last'.used = "null") =>
              /\ last'.key \in DOMAIN _transforms'[last'.from]
              /\ _transforms'[last'.from][last'.key] = nullptr
        /\ \A k \in DOMAIN _transforms[last'.from] :
              (k = PrescribedKey(last'.from, last'.to)
                    /\ ~(getProfile(last'.from) = getProfile(last'.to))
                    /\ _transforms[last'.from][k] = nullptr) =>
                  /\ ~last'.ret
                  /\ ~last'.built
                  /\ factoryCalls' = factoryCalls
                  /\ _transforms' = _transforms]_vars

\* C6 witness: a convert failed on a null entry an earlier convert had cached
C6_Witness ==
    /\ LastConvert
    /\ LastDiffer
    /\ ~last.built
    /\ last.used = "null"
    /\ ~last.ret

\* C7: the intent of the cache key and of the constructed transform is the
\* source's unless UNKNOWN, else the destination's unless UNKNOWN, else
\* PERCEPTUAL.
C7_IntentOursTheirsDefault ==
    /\ (LastConvert /\ LastDiffer) =>
          /\ last.key = PrescribedKey(last.from, last.to)
          /\ last.key \in DOMAIN _transforms[last.from]
    /\ \A s \in Instances : \A k \in DOMAIN _transforms[s] :
          \E to \in Instances :
              /\ k = PrescribedKey(s, to)
              /\ _transforms[s][k] \in
                    {nullptr, create_for_cms(getProfile(s), getProfile(to),
                                             PrescribedIntent(s, to), TRUE)}

\* C7 witness: source and destination are configured with different intents
C7_Witness ==
    /\ LastConvert
    /\ LastDiffer
    /\ last.used = "applied"
    /\ getIntent(last.from) # "UNKNOWN"
    /\ getIntent(last.to) # "UNKNOWN"
    /\ getIntent(last.from) # getIntent(last.to)

\* C8: a transform cache only grows: no convert or outOfGamut call removes
\* an entry or changes its value, and a call for another destination
\* checksum or another effective intent uses an entry of its own.
C8_CacheOnlyGrows ==
    [][/\ \A s \in Instances : \A k \in DOMAIN _transforms[s] :
              /\ k \in DOMAIN _transforms'[s]
              /\ _transforms'[s][k] = _transforms[s][k]
       /\ (CallStep /\ last'.op = "convert" /\ last'.used = "applied") =>
              _transforms'[last'.from][last'.key] =
                  create_for_cms(getProfile(last'.from), getProfile(last'.to),
                                 PrescribedIntent(last'.from, last'.to), TRUE)
       /\ (CallStep /\ last'.op = "outOfGamut") => _transforms' = _transforms]_vars

\* C8 witness: one instance caches two keys of the same checksum that differ
\* in the intent, one of them null
C8_Witness ==
    \E s \in Instances : \E k1 \in DOMAIN _transforms[s] : \E k2 \in DOMAIN _transforms[s] :
        /\ k1 # k2
        /\ \E p \in Profiles : \E i1 \in Intents : \E i2 \in Intents :
              /\ k1 = getChecksum(p) \o intentIds[i1]
              /\ k2 = getChecksum(p) \o intentIds[i2]
        /\ _transforms[s][k1] = nullptr
        /\ _transforms[s][k2] # nullptr

\* This step is one Manager call
MgrStep == mgrOps' = mgrOps + 1

\* C9: after construction and any addSpace / removeSpace calls, no two
\* registered spaces have the same Type.
C9_RegisteredTypesDistinct ==
    \A i \in DOMAIN _spaces : \A j \in DOMAIN _spaces :
        i # j => getType(_spaces[i]) # getType(_spaces[j])

\* C9 witness: a built-in was removed and a new space of its type registered
C9_Witness ==
    /\ mgrLast.op = "addSpace"
    /\ ~mgrLast.threw
    /\ mgrLast.arg \in Extras
    /\ \E b \in Range(BuiltIns) :
          /\ getType(b) = getType(mgrLast.arg)
          /\ b \notin Range(_spaces)
    /\ _spaces[Len(_spaces)] = mgrLast.arg

\* C10: addSpace of a space whose Type is registered throws and leaves the
\* registry, contents and order, as it was.
C10_DuplicateTypeThrows ==
    [][(MgrStep /\ mgrLast'.op = "addSpace"
            /\ \E i \in DOMAIN _spaces : getType(_spaces[i]) = getType(mgrLast'.arg)) =>
        /\ mgrLast'.threw
        /\ mgrLast'.ref = nullptr
        /\ _spaces' = _spaces]_vars

\* C10 witness: an addSpace threw after the registry had been changed
C10_Witness ==
    /\ mgrLast.op = "addSpace"
    /\ mgrLast.threw
    /\ mgrOps >= 2
    /\ _spaces # Manager.list

\* C11: find(type) and find(name) return null when no registered space
\* matches and otherwise the earliest-registered match; every registered
\* space, from its addSpace until it is removed, is what find returns for
\* its own type.
C11_FindEarliestOrNull ==
    LET typed == {i \in DOMAIN _spaces : getType(_spaces[i]) = query.arg}
        named == {i \in DOMAIN _spaces : getName(_spaces[i]) = query.arg}
        Earliest(hits) ==
            IF hits = {} THEN query.ref = nullptr
            ELSE \E i \in hits : /\ query.ref = _spaces[i]
                                 /\ \A j \in hits : i <= j
    IN  /\ query.op = "findType" => Earliest(typed)
        /\ query.op = "findName" => Earliest(named)
        /\ query.op = "findType" =>
              \A i \in DOMAIN _spaces :
                  getType(_spaces[i]) = query.arg => query.ref = _spaces[i]

\* C11 witness: a name carried by two registered spaces was looked up, the
\* later of them just added
C11_Witness ==
    /\ query.op = "findName"
    /\ mgrLast.op = "addSpace"
    /\ ~mgrLast.threw
    /\ getName(mgrLast.arg) = query.arg
    /\ \E i \in DOMAIN _spaces : \E j \in DOMAIN _spaces :
          /\ i < j
          /\ getName(_spaces[i]) = query.arg
          /\ _spaces[j] = mgrLast.arg
          /\ query.ref = _spaces[i]

\* C12: a successful addSpace appends the space at the end of the registry
\* and returns a reference to that appended entry; the length grows by
\* exactly 1 and the earlier entries keep their places.
C12_AddSpaceAppends ==
    [][(MgrStep /\ mgrLast'.op = "addSpace" /\ ~mgrLast'.threw) =>
        /\ Len(_spaces') = Len(_spaces) + 1
        /\ _spaces'[Len(_spaces')] = mgrLast'.arg
        /\ mgrLast'.ref = _spaces'[Len(_spaces')]
        /\ \A i \in DOMAIN _spaces : _spaces'[i] = _spaces[i]]_vars

\* C12 witness: a space was added behind the fifteen built-ins
C12_Witness ==
    /\ mgrLast.op = "addSpace"
    /\ ~mgrLast.threw
    /\ Len(_spaces) = Len(BuiltIns) + 1
    /\ SubSeq(_spaces, 1, Len(BuiltIns)) = BuiltIns
    /\ _spaces[Len(_spaces)] = mgrLast.arg
    /\ mgrLast.ref = mgrLast.arg

\* C13: removeSpace(s) removes exactly the entries that are the object s,
\* whatever their type or name, returns true iff it removed one, and leaves
\* the other entries in their relative order; for an unregistered s it
\* returns false and changes nothing.
C13_RemoveSpaceByIdentity ==
    [][(MgrStep /\ mgrLast'.op = "removeSpace") =>
        LET s == mgrLast'.arg
            others == {i \in DOMAIN _spaces : _spaces[i] # s}
            WasAt(p) == CHOOSE i \in DOMAIN _spaces : _spaces[i] = p
        IN  /\ mgrLast'.ret <=> s \in Range(_spaces)
            /\ Range(_spaces') = Range(_spaces) \ {s}
            /\ Len(_spaces') = Cardinality(others)
            /\ \A i \in 1 .. (Len(_spaces') - 1) :
                  WasAt(_spaces'[i]) < WasAt(_spaces'[i + 1])
            /\ s \notin Range(_spaces) => (_spaces' = _spaces /\ ~mgrLast'.ret)]_vars

\* C13 witness: a built-in was removed from the middle of the registry,
\* and removing a never-registered object of a registered type was refused
C13_Witness ==
    /\ mgrLast.op = "removeSpace"
    /\ ~mgrLast.ret
    /\ mgrLast.arg \in Extras
    /\ \E i \in DOMAIN _spaces : getType(_spaces[i]) = getType(mgrLast.arg)
    /\ Len(_spaces) = Len(BuiltIns) - 1
    /\ _spaces[1] = BuiltIns[1]
    /\ _spaces[Len(_spaces)] = BuiltIns[Len(BuiltIns)]

\* C14: right after construction the registry holds exactly the fifteen
\* built-in spaces, in the order the constructor lists them, their types
\* pairwise distinct, and the constructor has not thrown.
C14_ConstructedRegistry ==
    /\ ~Manager.threw
    /\ mgrOps = 0 =>
          /\ _spaces = <<"RGB", "NamedColor", "DeviceCMYK", "Gray", "HSL", "HSLuv",
                         "HSV", "Lab", "LinearRGB", "Lch", "Luv", "OkHsl", "OkLab",
                         "OkLch", "XYZ">>
          /\ Cardinality({getType(_spaces[i]) : i \in DOMAIN _spaces}) = 15

\* C14 witness: the freshly constructed registry, queried before any change
C14_Witness ==
    /\ mgrOps = 0
    /\ query.op = "findType"
    /\ query.arg = "CMYK"
    /\ query.ref = "DeviceCMYK"
    /\ _spaces[3] = "DeviceCMYK"
    /\ Len(_spaces) = 15

\* C15: spaces(traits) returns, in registration order and without changing
\* the registry, exactly the registered spaces whose component traits share
\* a flag with traits; for traits = None the result is empty.
C15_SpacesFiltersByTraits ==
    [][(query' # query /\ query'.op = "spaces") =>
        LET t == query'.mask
            res == query'.list
            Pos(p) == CHOOSE i \in DOMAIN _spaces : _spaces[i] = p
        IN  /\ _spaces' = _spaces
            /\ Range(res) = {p \in Range(_spaces) : \E f \in TraitFlags : f \in traits(p) /\ f \in t}
            /\ Cardinality(Range(res)) = Len(res)
            /\ \A i \in 1 .. (Len(res) - 1) : Pos(res[i]) < Pos(res[i + 1])
            /\ t = None => res = <<>>]_vars

\* C15 witness: a two-flag mask selected some registered spaces, a CMS
\* space among them, and left others out
C15_Witness ==
    /\ query.op = "spaces"
    /\ query.mask = {"CMS", "Picker"}
    /\ Len(query.list) > 1
    /\ Len(query.list) < Len(_spaces)
    /\ \E i \in DOMAIN query.list : getType(query.list[i]) = "CMS"
    /\ \E i \in DOMAIN query.list : getType(query.list[i]) # "CMS"

\* C16: isValidData(values) is true exactly when the length is the space's
\* component count or one more, and false for every other length, the
\* empty vector included; for DeviceCMYK the valid lengths are 4 and 5.
C16_ValidLengths ==
    access.op = "isValidData" =>
        /\ access.ret <=> access.size \in {getComponentCount(access.space),
                                           getComponentCount(access.space) + 1}
        /\ access.size = 0 => ~access.ret
        /\ access.space = "DeviceCMYK" => (access.ret <=> access.size \in {4, 5})

\* C16 witness: a vector two longer than a three-component space was rejected
C16_Witness ==
    /\ access.op = "isValidData"
    /\ access.space = "Lab"
    /\ access.size = 5
    /\ Len(values.v) = 5
    /\ ~access.ret

\* C20 as stated: Lab::scaleUp, scaleDown, toXYZ, fromXYZ and toString
\* touch only indices below values.size(), for every length of the vector,
\* lengths 0, 1 and 2 included.
C20_NoAccessPastEnd ==
    access.op \in LabOps => \A i \in access.indices : i < access.size

\* C17: outOfGamut returns false whenever the source and destination
\* profiles are equal, for every input, and in that case neither creates a
\* gamut checker nor adds an entry to the gamut-checker cache.
C17_SameProfileInGamut ==
    [][(CallStep /\ last'.op = "outOfGamut"
            /\ getProfile(last'.from) = getProfile(last'.to)) =>
        /\ last'.ret = FALSE
        /\ ~last'.built
        /\ last'.used = "none"
        /\ checkerCalls' = checkerCalls
        /\ _gamut_checkers' = _gamut_checkers
        /\ ~crashed']_vars

\* C17 witness: outOfGamut between two space objects on one profile, with
\* a four-channel input, answered false and left the source's cache empty
C17_Witness ==
    /\ last.op = "outOfGamut"
    /\ last.from # last.to
    /\ getProfile(last.from) = getProfile(last.to)
    /\ last.input = <<0, 1, 0, 1>>
    /\ ~last.ret
    /\ _gamut_checkers[last.from] = <<>>

\* C18: the gamut-checker cache is keyed by the destination profile's id
\* alone: the checker factory has run at most once per source instance and
\* destination profile id, whatever the intents, exactly for the ids in the
\* cache; outOfGamut leaves the transform cache as it was, and convert
\* leaves the gamut-checker cache as it was.
C18_CheckerOncePerProfileId ==
    [][/\ \A s \in Instances :
            /\ DOMAIN _gamut_checkers'[s] \subseteq {getId(p) : p \in Profiles}
            /\ \A p \in Profiles :
                  Count(checkerCalls', <<s, getId(p)>>) =
                      IF getId(p) \in DOMAIN _gamut_checkers'[s] THEN 1 ELSE 0
       /\ (CallStep /\ last'.op = "outOfGamut") =>
              /\ _transforms' = _transforms
              /\ factoryCalls' = factoryCalls
       /\ (CallStep /\ last'.op = "convert") =>
              /\ _gamut_checkers' = _gamut_checkers
              /\ checkerCalls' = checkerCalls]_vars

\* C18 witness: a second outOfGamut from a source whose intent is unknown,
\* to a profile it already holds a checker for, reused the checker; the
\* source's transform cache is still empty
C18_Witness ==
    /\ calls = 2
    /\ last.op = "outOfGamut"
    /\ getIntent(last.from) = "UNKNOWN"
    /\ ~last.built
    /\ last.used = "used"
    /\ Count(checkerCalls, <<last.from, getId(getProfile(last.to))>>) = 1
    /\ _transforms[last.from] = <<>>

\* C19 as stated: with two threads calling convert or outOfGamut on one
\* source space, the check-then-insert on its cache is atomic: each factory
\* runs at most once per key, no thread is between its lookup and its
\* insert for a key while another is too, and no thread accesses a map
\* while another is inserting into it.
C19_CheckThenInsertAtomic ==
    /\ \A c \in DOMAIN factoryCalls : factoryCalls[c] <= 1
    /\ \A c \in DOMAIN checkerCalls : checkerCalls[c] <= 1
    /\ \A t \in Threads : \A u \in Threads \ {t} :
          ~(/\ threads[t].pc \in {"create", "insert", "inserting"}
            /\ threads[u].pc \in {"create", "insert", "inserting"}
            /\ threads[t].op = threads[u].op
            /\ threads[t].key = threads[u].key)
    /\ ~raced

\* C26 as stated: in any sequence of outOfGamut calls between differing
\* profiles the checker consulted is never null: when the factory built no
\* checker, outOfGamut still returns a boolean and the cached null entry is
\* not dereferenced.
C26_NullCheckerNotDereferenced ==
    /\ ~crashed
    /\ last.op = "outOfGamut" => last.used # "null"

\* C27: after removeSpace(s) has returned true no registered space has s's
\* type and find of that type returns null; addSpace throws exactly when a
\* space of the argument's type is in the registry at that moment, so a
\* type whose space was removed can be registered again.
C27_TypeFreedByRemoval ==
    [][/\ (MgrStep /\ mgrLast'.op = "removeSpace" /\ mgrLast'.ret) =>
              \A i \in DOMAIN _spaces' : getType(_spaces'[i]) # getType(mgrLast'.arg)
       /\ (query' # query /\ query'.op = "findType"
              /\ mgrLast.op = "removeSpace" /\ mgrLast.ret
              /\ query'.arg = getType(mgrLast.arg)) =>
              query'.ref = nullptr
       /\ (MgrStep /\ mgrLast'.op = "addSpace") =>
              (mgrLast'.threw <=>
                  \E i \in DOMAIN _spaces : getType(_spaces[i]) = getType(mgrLast'.arg))]_vars

\* C27 witness: a built-in was removed, another object of its type was
\* registered without a throw, and find of that type now returns the new
\* object
C27_Witness ==
    /\ mgrOps >= 2
    /\ mgrLast.op = "addSpace"
    /\ ~mgrLast.threw
    /\ mgrLast.arg \in {"RGB_2", "Lab_2"}
    /\ query.op = "findType"
    /\ query.arg = getType(mgrLast.arg)
    /\ query.ref = mgrLast.arg

\* C28: on_motion invokes do_motion or do_release only when a drag is
\* active (a click since the last release or scroll) and the motion is more
\* than 20 px from the press point; on_release invokes do_release and
\* returns CLAIMED exactly when dragging and working are both true, that
\* is when a motion of more than 20 px followed the click with no release
\* or scroll in between, and otherwise returns NONE invoking nothing; after
\* every on_release and on_scroll dragging and working are both false.
C28_DragProtocol ==
    [][LET e == rotLast'
           released == <<<<"do_release",
                           forceOf(angleFrom(rot.drag_started, e.x, e.y), rot.current_axis),
                           rot.modifier>>>>
       IN  /\ e.op = "on_motion" =>
                 /\ \A i \in DOMAIN e.invoked : e.invoked[i][1] \in {"do_motion", "do_release"}
                 /\ e.invoked # <<>> =>
                       /\ rot.dragging
                       /\ sinceClick # "none"
                       /\ farFrom(rot.drag_started, e.x, e.y)
           /\ e.op = "on_release" =>
                 /\ e.ret \in {"CLAIMED", "NONE"}
                 /\ e.ret = "CLAIMED" <=> (rot.dragging /\ rot.working)
                 /\ e.ret = "CLAIMED" <=> sinceClick = "moved"
                 /\ e.invoked = IF e.ret = "CLAIMED" THEN released ELSE <<>>
           /\ e.op \in {"on_release", "on_scroll"} =>
                 /\ ~rot'.dragging
                 /\ ~rot'.working]_vars

\* C28 witness: a release ended a drag that a motion beyond 20 px had set
\* to work, under a modifier
C28_Witness ==
    /\ rotLast.op = "on_release"
    /\ rotLast.ret = "CLAIMED"
    /\ Len(rotLast.invoked) = 1
    /\ rotLast.invoked[1][1] = "do_release"
    /\ rotLast.invoked[1][3] # 0
    /\ ~rot.dragging
    /\ ~rot.working
    /\ sinceClick = "none"

\* C29: get_single_modifier(old, state) with old in 0..3 returns a value in
\* 0..3; 0 when none of Ctrl, Shift, Alt is held; by priority Ctrl, Shift,
\* Alt when old is 0 or 3; and old itself when old is 1 (Ctrl) or 2 (Shift)
\* and that key is still held, whatever else is held.
C29_SingleModifier ==
    LET applied == \/ rotLast.op \in {"on_click", "on_scroll"}
                   \/ rotLast.op = "on_motion" /\ rotLast.invoked # <<>>
        old == rotLast.old
        state == rotLast.state
        new == rot.modifier
    IN  /\ rot.modifier \in 0 .. 3
        /\ applied =>
              /\ old \in 0 .. 3
              /\ state \cap ModKeys = {} => new = 0
              /\ old \in {0, 3} =>
                    new = IF "CONTROL" \in state THEN 1
                          ELSE IF "SHIFT" \in state THEN 2
                          ELSE IF "ALT" \in state THEN 3
                          ELSE 0
              /\ (old = 1 /\ "CONTROL" \in state) => new = 1
              /\ (old = 2 /\ "SHIFT" \in state) => new = 2

\* C29 witness: with Shift the current modifier, a click with Ctrl, Shift
\* and Alt all held kept Shift
C29_Witness ==
    /\ rotLast.op = "on_click"
    /\ rotLast.old = 2
    /\ rotLast.state = {"CONTROL", "SHIFT", "ALT"}
    /\ rot.modifier = 2

\* This step is the entry of one StatusBar handler
EntryStep == sbCalls' = sbCalls + 1

\* C30: the four handlers share one blocker. A handler entered while
\* another is in progress returns at once: it activates no window action
\* and sets no spin-button value. The blocker is released when the outer
\* call returns, so a handler entered while none is in progress is never
\* suppressed.
C30_BlockerGuardsReentry ==
    [][/\ (EntryStep /\ statusbar.running # <<>>) =>
              /\ sbLast'.returned
              /\ sbLast'.did = <<>>
              /\ statusbar' = statusbar
       /\ (EntryStep /\ statusbar.running = <<>>) =>
              /\ ~sbLast'.returned
              /\ sbLast'.did # <<>>
              /\ statusbar'.running = <<sbLast'.handler>>
       /\ statusbar'.running = <<>> => ~pending(statusbar'._blocker)]_vars

\* C30 witness: after at least two earlier handler calls, one of which
\* ran and returned, update_rotate was entered at top level and set the
\* spin button
C30_Witness ==
    /\ sbCalls >= 3
    /\ ~sbLast.nested
    /\ ~sbLast.returned
    /\ sbLast.handler = "update_rotate"
    /\ sbLast.did = <<"set_value", "rotate_value", 90>>
    /\ statusbar.running = <<"update_rotate">>
    /\ statusbar._blocker = 1

\* Lab functions applied to the held vector, in order
Applied(ops) == values.ops = [i \in 1 .. Len(ops) |-> <<ops[i]>>]

\* x lies in lo..hi
Within(x, lo, hi) == ~Less(x, Num(lo)) /\ ~Greater(x, Num(hi))

\* C21 as stated: scaleUp takes channel 0 from [0,1] to [0,100] and
\* channels 1 and 2 from [0,1] to [-128,128], scaleDown(scaleUp(v)) == v
\* for every vector, and both leave every element at index 3 or above as
\* it was.
C21_ScaleDownInvertsScaleUp ==
    /\ access.op \in {"scaleUp", "scaleDown"} => access.ub = "none"
    /\ Applied(<<"scaleUp">>) =>
           \A i \in 1 .. Len(values.v) :
               /\ i = 1 => /\ values.now[i] = Times(values.v[i], Num(100))
                           /\ Within(values.now[i], 0, 100)
               /\ i \in {2, 3} => /\ values.now[i] = Minus(Times(values.v[i], Num(256)), Num(128))
                                  /\ Within(values.now[i], -128, 128)
               /\ i > 3 => values.now[i] = values.v[i]
    /\ Applied(<<"scaleDown">>) =>
           \A i \in 1 .. Len(values.v) : i > 3 => values.now[i] = values.v[i]
    /\ Applied(<<"scaleUp", "scaleDown">>) =>
           /\ Len(values.now) = Len(values.v)
           /\ values.now = values.v

\* C21 on the vectors the scalings are defined for, those of three or more
\* values
C21_WhereDefined ==
    (Len(values.v) < 3 /\ access.op \in {"scaleUp", "scaleDown"}) \/ C21_ScaleDownInvertsScaleUp

\* C22: Lab::toString on a Lab vector (three values or more) prints the
\* lightness as values[0] * 100 and each chroma channel taken from [0,1] to
\* the CSS range [-125,125], appends the opacity exactly when the flag is
\* true and the vector has exactly 4 elements, and leaves the vector as it
\* was.
C22_ToStringCssScale ==
    [][(access' # access /\ access'.op = "toString" /\ access'.ub = "none") =>
        LET v == values.now
            text == access'.text
        IN  /\ values' = values
            /\ Len(text) >= 3
            /\ \A i \in 1 .. 3 : text[i].kind = "number"
            /\ text[1].value = Times(v[1], Num(100))
            /\ \A i \in 2 .. 3 :
                   /\ text[i].value = Minus(Times(v[i], Num(250)), Num(125))
                   /\ Within(v[i], 0, 1) => Within(text[i].value, -125, 125)
                   /\ v[i] = Zero => text[i].value = Num(-125)
                   /\ v[i] = One => text[i].value = Num(125)
            /\ IF access'.ret /\ Len(v) = 4
                   THEN text[4] = slash /\ text[5] = number(v[4]) /\ Len(text) = 5
                   ELSE Len(text) = 3]_vars

\* C22 witness: a four-element vector with both chroma channels at the ends
\* of the range was printed with its opacity
C22_Witness ==
    /\ access.op = "toString"
    /\ access.ub = "none"
    /\ access.ret
    /\ Len(values.now) = 4
    /\ values.now[2] = Zero
    /\ values.now[3] = One
    /\ Len(access.text) = 5
    /\ access.text[2].value = Num(-125)
    /\ access.text[3].value = Num(125)

\* A parse has just been made
ParseStep == access' # access /\ access'.op = "parse"

\* C23: for a normalised Lab vector v of three channels, or of four printed
\* with its opacity, Lab::Parser::parse of the channel text Lab::toString(v)
\* printed, into an empty output, succeeds and yields v; the values 0 and
\* 1 of a channel included.
C23_CssRoundTrip ==
    [][(/\ ParseStep
        /\ access.op = "toString"
        /\ access.ub = "none"
        /\ access'.text = access.text
        /\ access'.before = <<>>
        /\ Len(values.now) \in {3, 4}
        /\ Len(values.now) = 4 => access.ret
        /\ \A i \in DOMAIN values.now : Within(values.now[i], 0, 1)) =>
            /\ access'.ret
            /\ access'.after = values.now]_vars

\* C23 witness: a four-channel vector with channels at 0 and at 1 came
\* back from the text toString printed for it
C23_Witness ==
    /\ access.op = "parse"
    /\ access.ret
    /\ access.before = <<>>
    /\ Len(values.now) = 4
    /\ access.text = toString(values.now, TRUE)
    /\ access.after = values.now
    /\ \E i, j \in 1 .. 3 : values.now[i] = Zero /\ values.now[j] = One
    /\ values.now[4] = One

\* The numbers of a text, in order
numbers(ss) == SelectSeq(ss, LAMBDA t : t.kind = "number")

\* The kinds of a text's tokens, in order
kinds(ss) == [i \in 1 .. Len(ss) |-> ss[i].kind]

\* The divisor of the k-th value read
scaleOf(k) == CASE k = 1 -> 100 [] k \in {2, 3} -> 125 [] OTHER -> 1

\* Three channel values, an optional slash, an optional opacity, and the end
WellFormed ==
    LET n == "number"
    IN  {<<n, n, n>>, <<n, n, n, "slash">>, <<n, n, n, n>>, <<n, n, n, "slash", n>>}

\* C24: a Lab::Parser::parse that fails (fewer than three channel values
\* can be read, or the end is not reached after the optional opacity)
\* returns false, only appends to the output vector, leaves every element
\* that was in it as it was, and applies no (x+1)/2 remap; it returns true
\* only when at least three values were appended and the end was reached.
C24_ParseFailureAppendsOnly ==
    [][ParseStep =>
        LET text == access'.text
            before == access'.before
            after == access'.after
            n == Len(after) - Len(before)
        IN  /\ access'.ret <=> kinds(text) \in WellFormed
            /\ access'.ret => n >= 3
            /\ ~access'.ret =>
                   /\ n >= 0
                   /\ SubSeq(after, 1, Len(before)) = before
                   /\ n <= Len(numbers(text))
                   /\ \A k \in 1 .. n :
                          after[Len(before) + k] = Over(numbers(text)[k].value, Num(scaleOf(k)))]_vars

\* C24 witness: a text with something after its opacity was refused with
\* four values appended, unremapped, behind the one the output held
C24_Witness ==
    /\ access.op = "parse"
    /\ ~access.ret
    /\ access.before = <<One>>
    /\ Len(access.text) = 6
    /\ Len(access.after) = 5
    /\ access.after[1] = One
    /\ access.after[3] = Zero
    /\ access.after[4] = Num(-1)

\* |a - b|
Distance(a, b) == IF Less(a, b) THEN Minus(b, a) ELSE Minus(a, b)

\* The round-trip tolerance, 1e-9
Tolerance == Frac(1, 1000000000)

\* C25 as stated: for every valid normalised Lab vector v,
\* Lab::fromXYZ(Lab::toXYZ(v)) equals v within 1e-9 in every channel.
C25_XYZRoundTrip ==
    (Applied(<<"toXYZ", "fromXYZ">>) /\ Len(values.v) \in {3, 4}) =>
        /\ Len(values.now) = Len(values.v)
        /\ \A i \in DOMAIN values.v :
               ~Greater(Distance(values.now[i], values.v[i]), Tolerance)

\* C25 on the two ends of the lightness range, where the linear branch's
\* constants play no part
C25_AtBlackAndWhite ==
    (Applied(<<"toXYZ", "fromXYZ">>) /\ Len(values.v) \in {3, 4}
        /\ values.v[1] \in {Zero, One}) =>
        values.now = values.v

=============================================================================
